---- MODULE Spec2Model ----
(***************************************************************************)
(* Model of the sliding-window statistics engine of trade-bot              *)
(* (src/src/analysis.rs): the OHLC value type with its arithmetic, and     *)
(* MovingStatistics with new, update, means and deviations.                *)
(*                                                                         *)
(* Numbers.  The i64 fields (time, count) are integers; i64 division       *)
(* truncates toward zero.  The six f32 fields are exact rationals          *)
(* <<numerator, denominator>> in lowest terms: the bars fed to the engine  *)
(* carry small integral values, on which f32 addition and subtraction are  *)
(* exact, and the single division of means is applied to equal operands    *)
(* on both sides of every comparison made here.  Sums stay far below 2^63  *)
(* and 2^24, so neither i64 overflow nor f32 rounding of sums occurs       *)
(* within the bounds.                                                      *)
(***************************************************************************)
EXTENDS Integers, Sequences, FiniteSets, TLC

\* Largest capacity (universe_window) an engine is built with.
MaxW == 2

\* Largest timestamp a supplied bar carries.
MaxTime == 1

\* Largest number of update calls in one run.
MaxUpdates == 3

VARIABLES
    universe_window,  \* MovingStatistics.universe_window
    universe,         \* MovingStatistics.universe: the RBTree, key -> bar
    supplied,         \* history: the bars passed to update, in call order
    ret,              \* the last completed call with its arguments and result
    pc,               \* per task: the position inside its call
    job,              \* per task: the call it runs and the call's locals
    lock              \* the RwLock around universe: writer and readers

vars == <<universe_window, universe, supplied, ret, pc, job, lock>>

----------------------------------------------------------------------------
\* Rationals for the f32 fields.

Abs(x) == IF x < 0 THEN 0 - x ELSE x

RECURSIVE Gcd(_, _)
Gcd(a, b) == IF b = 0 THEN a ELSE Gcd(b, a % b)

Rat(n, d) ==
    LET g == Gcd(Abs(n), d)
    IN  <<(IF n < 0 THEN 0 - (Abs(n) \div g) ELSE n \div g), d \div g>>

F32(n) == <<n, 1>>

F32Add(a, b) == Rat(a[1] * b[2] + b[1] * a[2], a[2] * b[2])

F32Sub(a, b) == Rat(a[1] * b[2] - b[1] * a[2], a[2] * b[2])

\* self.open / (rhs as f32), for rhs >= 1
F32Div(a, rhs) == Rat(a[1], a[2] * rhs)

\* i64 division: truncation toward zero, for rhs >= 1
I64Div(a, rhs) == IF a < 0 THEN 0 - ((0 - a) \div rhs) ELSE a \div rhs

----------------------------------------------------------------------------
\* The OHLC value type.

new_zero ==
    [time |-> 0, open |-> F32(0), high |-> F32(0), low |-> F32(0),
     close |-> F32(0), vwap |-> F32(0), volume |-> F32(0), count |-> 0]

add(self, other) ==
    [time   |-> self.time + other.time,
     open   |-> F32Add(self.open, other.open),
     high   |-> F32Add(self.high, other.high),
     low    |-> F32Add(self.low, other.low),
     close  |-> F32Add(self.close, other.close),
     vwap   |-> F32Add(self.vwap, other.vwap),
     volume |-> F32Add(self.volume, other.volume),
     count  |-> self.count + other.count]

sub(self, other) ==
    [time   |-> self.time - other.time,
     open   |-> F32Sub(self.open, other.open),
     high   |-> F32Sub(self.high, other.high),
     low    |-> F32Sub(self.low, other.low),
     close  |-> F32Sub(self.close, other.close),
     vwap   |-> F32Sub(self.vwap, other.vwap),
     volume |-> F32Sub(self.volume, other.volume),
     count  |-> self.count - other.count]

div(self, rhs) ==
    [time   |-> I64Div(self.time, rhs),
     open   |-> F32Div(self.open, rhs),
     high   |-> F32Div(self.high, rhs),
     low    |-> F32Div(self.low, rhs),
     close  |-> F32Div(self.close, rhs),
     vwap   |-> F32Div(self.vwap, rhs),
     volume |-> F32Div(self.volume, rhs),
     count  |-> I64Div(self.count, rhs)]

\* The bars the feed supplies: a timestamp and a price level p.
Bar(t, p) ==
    [time |-> t, open |-> F32(p), high |-> F32(p + 1), low |-> F32(p - 1),
     close |-> F32(p), vwap |-> F32(p), volume |-> F32(2 * p), count |-> p]

Times == (0 - 1) .. MaxTime

\* One bar per timestamp, and a second bar of another level for timestamp 0.
Bars == {Bar(t, 1) : t \in Times} \cup {Bar(0, 4)}

----------------------------------------------------------------------------
\* The ordered map (RBTree<i64, OHLC>) as a function from its keys.

EmptyTree == [k \in {} |-> new_zero]

len(tree) == Cardinality(DOMAIN tree)

first_key(tree) == CHOOSE k \in DOMAIN tree : \A j \in DOMAIN tree : k <= j

\* Mutant: an existing key keeps the value it has.
insert_keep(tree, k, v) ==
    [j \in (DOMAIN tree) \cup {k} |-> IF j \in DOMAIN tree THEN tree[j] ELSE v]

\* RBTree::insert as update uses it: the value under an existing key is replaced.
insert(tree, k, v) == [j \in (DOMAIN tree) \cup {k} |-> IF j = k THEN v ELSE tree[j]]

remove(tree, k) == [j \in (DOMAIN tree) \ {k} |-> tree[j]]

\* RBTree::iter: the values in ascending key order.
RECURSIVE iter(_)
iter(tree) ==
    IF DOMAIN tree = {} THEN <<>>
    ELSE <<tree[first_key(tree)]>> \o iter(remove(tree, first_key(tree)))

None == [some |-> FALSE]

Some(v) == [some |-> TRUE, val |-> v]

----------------------------------------------------------------------------
\* MovingStatistics::update

\* Mutant: the capacity test is off by one.
at_capacity_succ(tree, window) == len(tree) = window + 1

\* Mutant: the capacity test is a strict comparison, so nothing is evicted.
at_capacity_gt(tree, window) == len(tree) > window

\* write_universe.len() == self.universe_window
at_capacity(tree, window) == len(tree) = window

\* Mutant: the newest entry is popped instead of the oldest.
pop_last(tree) ==
    IF DOMAIN tree = {} THEN [popped |-> None, tree |-> tree]
    ELSE LET k == CHOOSE x \in DOMAIN tree : \A j \in DOMAIN tree : j <= x
         IN  [popped |-> Some(tree[k]), tree |-> remove(tree, k)]

\* Mutant: the oldest entry is read but left in the tree.
pop_first_keep(tree) ==
    IF DOMAIN tree = {} THEN [popped |-> None, tree |-> tree]
    ELSE [popped |-> Some(tree[first_key(tree)]), tree |-> tree]

\* write_universe.pop_first(): the pair with the smallest key, or None
pop_first(tree) ==
    IF DOMAIN tree = {} THEN [popped |-> None, tree |-> tree]
    ELSE [popped |-> Some(tree[first_key(tree)]),
          tree   |-> remove(tree, first_key(tree))]

\* Mutant: no early return when pop_first finds nothing.
evict_no_stop(tree, window) ==
    IF at_capacity(tree, window)
    THEN LET p == pop_first(tree)
         IN  [popped |-> p.popped, tree |-> p.tree, stop |-> FALSE]
    ELSE [popped |-> None, tree |-> tree, stop |-> FALSE]

\* The check-evict part of update.  stop: the early return Ok(None) taken when
\* the tree is at capacity and pop_first finds nothing.
evict(tree, window) ==
    IF at_capacity(tree, window)
    THEN LET p == pop_first(tree)
         IN  [popped |-> p.popped, tree |-> p.tree, stop |-> ~p.popped.some]
    ELSE [popped |-> None, tree |-> tree, stop |-> FALSE]

\* write_universe.insert(unit.time, unit)
put(tree, unit) == insert(tree, unit.time, unit)

\* Mutant: insert first, then evict the oldest entry of an overfull tree.
update_insert_first(tree, window, unit) ==
    LET t == put(tree, unit)
    IN  IF len(t) > window
        THEN [tree |-> pop_first(t).tree, result |-> pop_first(t).popped]
        ELSE [tree |-> t, result |-> None]

\* The whole call: the tree it leaves and the Ok value it returns.
update(tree, window, unit) ==
    LET e == evict(tree, window)
    IN  IF e.stop THEN [tree |-> tree, result |-> None]
        ELSE [tree |-> put(e.tree, unit), result |-> e.popped]

----------------------------------------------------------------------------
\* MovingStatistics::means

\* Mutant: only the first requested window is validated.
too_large_first(windows, window_bound) ==
    Len(windows) >= 1 /\ windows[1] > window_bound

\* The validation loop: some requested window exceeds universe_window.
too_large(windows, window_bound) ==
    \E i \in 1 .. Len(windows) : windows[i] > window_bound

\* prefix_sum: element k + 1 is the sum of the first k bars (k = 0 .. n).
RECURSIVE prefix_sum(_)
prefix_sum(bars) ==
    IF bars = <<>> THEN <<new_zero>>
    ELSE LET front == prefix_sum(SubSeq(bars, 1, Len(bars) - 1))
         IN  Append(front, add(front[Len(front)], bars[Len(bars)]))

\* self.universe_window - (*window - 1), for window >= 1
number_shifts(window_bound, window) == window_bound - (window - 1)

\* One window's loop panics: window = 0 (the subtraction window - 1 overflows
\* in a checked build, and in an unchecked build the i64 division by zero
\* panics at the first shift), or an index i_shift + window lies past the end
\* of prefix_sum.
mean_panics(sums, window_bound, window) ==
    \/ window = 0
    \/ \E i_shift \in 0 .. (number_shifts(window_bound, window) - 1) :
           i_shift + window > Len(sums) - 1

\* Mutant: the window sum is divided by the capacity, not by the window.
moving_average_by_bound(sums, window_bound, window) ==
    [i \in 1 .. number_shifts(window_bound, window) |->
        div(sub(sums[i + window], sums[i]), window_bound)]

\* moving_average for one window; element i_shift + 1 is shift i_shift.
moving_average(sums, window_bound, window) ==
    [i \in 1 .. number_shifts(window_bound, window) |->
        div(sub(sums[i + window], sums[i]), window)]

Range(s) == {s[i] : i \in 1 .. Len(s)}

\* The whole call on the tree it reads.
means(tree, window_bound, windows) ==
    IF too_large(windows, window_bound) THEN [status |-> "err"]
    ELSE LET sums == prefix_sum(iter(tree))
         IN  IF \E w \in Range(windows) : mean_panics(sums, window_bound, w)
             THEN [status |-> "panic"]
             ELSE [status |-> "ok",
                   val |-> [w \in Range(windows) |->
                               moving_average(sums, window_bound, w)]]

\* The window lists means is called with: up to two lengths, 0 .. MaxW + 1.
Lengths == 0 .. (MaxW + 1)

WindowLists ==
    {<<>>} \cup {<<a>> : a \in Lengths} \cup {<<a, b>> : a \in Lengths, b \in Lengths}

----------------------------------------------------------------------------
\* MovingStatistics::deviations

\* The two checks of the validation loop for one key of means; "" when the
\* key passes both.
deviation_reject(given, window_bound, window) ==
    IF window > window_bound THEN "too_large"
    ELSE IF Len(given[window]) # window_bound - window + 1 THEN "length"
    ELSE ""

\* The accumulation loop panics: values[index] or cloned[window][index + shift]
\* lies past the end of a vector of values.len() elements.
accumulate_panics(tree, given) ==
    \E index \in 0 .. (len(tree) - 1) : \E window \in DOMAIN given :
        \/ index >= Len(given[window])
        \/ \E shift \in 0 .. (window - 1) : index + shift >= Len(given[window])

\* The outcomes of the whole call.  means.keys() iterates the HashMap in an
\* order that is not fixed, so any rejected key can be the one reported.
deviations(tree, window_bound, given) ==
    LET rejected == {w \in DOMAIN given : deviation_reject(given, window_bound, w) # ""}
    IN  IF rejected # {}
        THEN {[status |-> "err", kind |-> deviation_reject(given, window_bound, w)] :
                 w \in rejected}
        ELSE IF accumulate_panics(tree, given) THEN {[status |-> "panic"]}
        ELSE {[status |-> "err", kind |-> "not_implemented"]}

\* The mappings deviations is called with: no key, or one key 0 .. MaxW + 1
\* with a sequence of 0 .. MaxW + 1 equal bars.
Constant(bar, n) == [i \in 1 .. n |-> bar]

GivenMeans ==
    {<<>>} \cup {[w \in {L} |-> Constant(Bar(0, 1), n)] : L \in Lengths, n \in Lengths}

----------------------------------------------------------------------------
\* One caller: every call runs to completion before the next starts.

Idle == [op |-> "none"]

NoLock == [writer |-> FALSE, readers |-> {}]

\* MovingStatistics::new(universe_window)
Init ==
    /\ universe_window \in 0 .. MaxW
    /\ universe = EmptyTree
    /\ supplied = <<>>
    /\ ret = [op |-> "new"]
    /\ pc = <<>>
    /\ job = <<>>
    /\ lock = NoLock

Update ==
    /\ Len(supplied) < MaxUpdates
    /\ \E unit \in Bars :
         LET r == update(universe, universe_window, unit)
         IN  /\ universe' = r.tree
             /\ supplied' = Append(supplied, unit)
             /\ ret' = [op |-> "update", unit |-> unit, before |-> universe,
                        result |-> r.result]
    /\ UNCHANGED <<universe_window, pc, job, lock>>

\* Mutant: means walks the tree by popping its entries and keeps the rest.
MeansDraining ==
    /\ \E windows \in WindowLists :
         ret' = [op |-> "means", windows |-> windows, before |-> universe,
                 result |-> means(universe, universe_window, windows)]
    /\ universe' = pop_first(universe).tree
    /\ UNCHANGED <<universe_window, supplied, pc, job, lock>>

Means ==
    /\ \E windows \in WindowLists :
         ret' = [op |-> "means", windows |-> windows, before |-> universe,
                 result |-> means(universe, universe_window, windows)]
    /\ UNCHANGED <<universe_window, universe, supplied, pc, job, lock>>

Deviations ==
    /\ \E given \in GivenMeans :
         \E outcome \in deviations(universe, universe_window, given) :
           ret' = [op |-> "deviations", given |-> given, before |-> universe,
                   result |-> outcome]
    /\ UNCHANGED <<universe_window, universe, supplied, pc, job, lock>>

Next == Update \/ Means \/ Deviations

Spec == Init /\ [][Next]_vars

----------------------------------------------------------------------------
\* Concurrent callers: tasks that call update, means and deviations on one
\* engine, each call a sequence of steps around the RwLock.  A guard is
\* released where the call returns (or unwinds from a panic).  The bars passed
\* to update are not recorded here (supplied stays empty).  update cannot
\* panic while it holds the write guard, so the lock is never poisoned and
\* the Err arms of write() and read() are never taken.

Tasks == {"t1", "t2"}

\* Mutant: the write guard is granted like a read guard, whatever readers hold.
can_write_shared(l) == ~l.writer

\* self.universe.write(): granted when nobody holds the lock.
can_write(l) == ~l.writer /\ l.readers = {}

\* self.universe.read(): granted when no writer holds the lock.
can_read(l) == ~l.writer

ConcInit ==
    /\ universe_window \in 0 .. MaxW
    /\ universe = EmptyTree
    /\ supplied = <<>>
    /\ ret = [op |-> "new"]
    /\ pc = [t \in Tasks |-> "idle"]
    /\ job = [t \in Tasks |-> Idle]
    /\ lock = NoLock

Return(t) == /\ pc' = [pc EXCEPT ![t] = "idle"]
             /\ job' = [job EXCEPT ![t] = Idle]

CallUpdate(t) ==
    /\ pc[t] = "idle"
    /\ \E unit \in Bars :
         job' = [job EXCEPT ![t] = [op |-> "update", unit |-> unit, popped |-> None]]
    /\ pc' = [pc EXCEPT ![t] = "write"]
    /\ UNCHANGED <<universe_window, universe, supplied, ret, lock>>

AcquireWrite(t) ==
    /\ pc[t] = "write"
    /\ can_write(lock)
    /\ lock' = [lock EXCEPT !.writer = TRUE]
    /\ pc' = [pc EXCEPT ![t] = "evict"]
    /\ UNCHANGED <<universe_window, universe, supplied, ret, job>>

\* The capacity test and pop_first; the early return releases the guard.
Evict(t) ==
    /\ pc[t] = "evict"
    /\ LET e == evict(universe, universe_window)
       IN  /\ universe' = e.tree
           /\ IF e.stop
              THEN /\ Return(t)
                   /\ lock' = [lock EXCEPT !.writer = FALSE]
              ELSE /\ pc' = [pc EXCEPT ![t] = "insert"]
                   /\ job' = [job EXCEPT ![t].popped = e.popped]
                   /\ UNCHANGED lock
    /\ UNCHANGED <<universe_window, supplied, ret>>

\* insert, then return Ok(popped), which releases the guard.
Insert(t) ==
    /\ pc[t] = "insert"
    /\ universe' = put(universe, job[t].unit)
    /\ lock' = [lock EXCEPT !.writer = FALSE]
    /\ Return(t)
    /\ UNCHANGED <<universe_window, supplied, ret>>

CallMeans(t) ==
    /\ pc[t] = "idle"
    /\ \E a \in Lengths :
         job' = [job EXCEPT ![t] = [op |-> "means", windows |-> <<a>>]]
    /\ pc' = [pc EXCEPT ![t] = "check"]
    /\ UNCHANGED <<universe_window, universe, supplied, ret, lock>>

CallDeviations(t) ==
    /\ pc[t] = "idle"
    /\ \E L \in Lengths :
         job' = [job EXCEPT ![t] =
                    [op |-> "deviations",
                     given |-> [w \in {L} |-> Constant(new_zero, universe_window - L + 1)]]]
    /\ pc' = [pc EXCEPT ![t] = "check"]
    /\ UNCHANGED <<universe_window, universe, supplied, ret, lock>>

\* The validation loop of means or deviations: it runs before the lock is
\* asked for, and a rejected call returns without touching it.
Validate(t) ==
    /\ pc[t] = "check"
    /\ IF job[t].op = "means"
       THEN IF too_large(job[t].windows, universe_window)
            THEN Return(t)
            ELSE pc' = [pc EXCEPT ![t] = "read"] /\ UNCHANGED job
       ELSE IF \E w \in DOMAIN job[t].given :
                   deviation_reject(job[t].given, universe_window, w) # ""
            THEN Return(t)
            ELSE pc' = [pc EXCEPT ![t] = "read"] /\ UNCHANGED job
    /\ UNCHANGED <<universe_window, universe, supplied, ret, lock>>

AcquireRead(t) ==
    /\ pc[t] = "read"
    /\ can_read(lock)
    /\ lock' = [lock EXCEPT !.readers = @ \cup {t}]
    /\ pc' = [pc EXCEPT ![t] = "compute"]
    /\ UNCHANGED <<universe_window, universe, supplied, ret, job>>

\* The body of means or deviations under the read guard: it reads the tree
\* and returns, which releases the guard (also when the body panics).  The
\* values returned are those of the one-caller actions Means and Deviations;
\* here ret records whether the tree was read between the pop_first and the
\* insert of an update.
Compute(t) ==
    /\ pc[t] = "compute"
    /\ ret' = [op |-> job[t].op, torn |-> \E u \in Tasks : pc[u] = "insert"]
    /\ lock' = [lock EXCEPT !.readers = @ \ {t}]
    /\ Return(t)
    /\ UNCHANGED <<universe_window, universe, supplied>>

ConcNext ==
    \E t \in Tasks :
        \/ CallUpdate(t) \/ AcquireWrite(t) \/ Evict(t) \/ Insert(t)
        \/ CallMeans(t) \/ CallDeviations(t) \/ Validate(t)
        \/ AcquireRead(t) \/ Compute(t)

ConcSpec == ConcInit /\ [][ConcNext]_vars

----------------------------------------------------------------------------
\* Vocabulary of the properties.

Min(a, b) == IF a < b THEN a ELSE b

\* The bars of a tree, oldest first, read off the keys directly.
RECURSIVE Chronological(_, _)
Chronological(tree, keys) ==
    IF keys = {} THEN <<>>
    ELSE LET k == CHOOSE x \in keys : \A y \in keys : x <= y
         IN  <<tree[k]>> \o Chronological(tree, keys \ {k})

Window(tree) == Chronological(tree, DOMAIN tree)

\* The timestamps of a sequence of bars increase strictly.
Increasing(bars) ==
    \A i \in 1 .. (Len(bars) - 1) : bars[i].time < bars[i + 1].time

\* The tree after new(window) and the updates of a sequence of bars.
RECURSIVE TreeAfter(_, _)
TreeAfter(window, bars) ==
    IF bars = <<>> THEN EmptyTree
    ELSE update(TreeAfter(window, SubSeq(bars, 1, Len(bars) - 1)), window,
                bars[Len(bars)]).tree

\* Before the last update the window had, at some moment, held
\* universe_window entries.
HadReachedCapacity ==
    \E k \in 0 .. (Len(supplied) - 1) :
        len(TreeAfter(universe_window, SubSeq(supplied, 1, k))) = universe_window

\* The entry with the smallest timestamp of a non-empty tree.
Oldest(tree) == tree[CHOOSE k \in DOMAIN tree : \A j \in DOMAIN tree : k <= j]

Without(tree, bar) == [j \in (DOMAIN tree) \ {bar.time} |-> tree[j]]

With(tree, bar) ==
    [j \in (DOMAIN tree) \cup {bar.time} |-> IF j = bar.time THEN bar ELSE tree[j]]

----------------------------------------------------------------------------
\* C1: after every update the window holds at most universe_window entries.
C1_SizeWithinCapacity == len(universe) <= universe_window

\* An update that evicted and left the window full.
C1_Witness ==
    /\ ret.op = "update"
    /\ ret.result.some
    /\ universe_window = MaxW
    /\ len(universe) = universe_window

C3_MostRecentBars ==
    Increasing(supplied) =>
        LET k == Len(supplied)
            m == Min(k, universe_window)
        IN  Window(universe) = SubSeq(supplied, k - m + 1, k)

\* More increasing updates than the capacity, so that older bars were dropped.
C3_Witness ==
    /\ Increasing(supplied)
    /\ universe_window >= 1
    /\ Len(supplied) > universe_window
    /\ len(universe) = universe_window

\* The sum of the bars at positions from .. to of a sequence, added up
\* bar by bar.
RECURSIVE SumOf(_, _, _)
SumOf(bars, from, to) ==
    IF from > to THEN new_zero
    ELSE add(SumOf(bars, from, to - 1), bars[to])

\* The mean of the bars at positions from .. to: every f32 field sum over
\* the number of bars, time and count by i64 division (toward zero).
MeanOf(bars, from, to) ==
    LET t == SumOf(bars, from, to)
        n == to - from + 1
        q(x) == IF x < 0 THEN 0 - ((0 - x) \div n) ELSE x \div n
    IN  [time |-> q(t.time), open |-> Rat(t.open[1], t.open[2] * n),
         high |-> Rat(t.high[1], t.high[2] * n), low |-> Rat(t.low[1], t.low[2] * n),
         close |-> Rat(t.close[1], t.close[2] * n),
         vwap |-> Rat(t.vwap[1], t.vwap[2] * n),
         volume |-> Rat(t.volume[1], t.volume[2] * n), count |-> q(t.count)]

\* The requested lengths of a means call all lie in lo .. hi.
LengthsWithin(windows, lo, hi) ==
    \A i \in 1 .. Len(windows) : lo <= windows[i] /\ windows[i] <= hi

\* C4: on a full window, for requested lengths 1 .. universe_window, the
\* sequence for length L has universe_window - L + 1 elements, element i the
\* mean of the bars at window positions i .. i + L - 1; length 1 gives the
\* bars themselves and length universe_window the mean of all bars.
C4_PrefixSumLaw ==
    ( /\ ret.op = "means"
      /\ len(ret.before) = universe_window
      /\ LengthsWithin(ret.windows, 1, universe_window) ) =>
        LET bars == Window(ret.before)
            n == universe_window
        IN  /\ ret.result.status = "ok"
            /\ DOMAIN ret.result.val = {ret.windows[i] : i \in 1 .. Len(ret.windows)}
            /\ \A L \in DOMAIN ret.result.val :
                 /\ ret.result.val[L] = [i \in 1 .. (n - L + 1) |-> MeanOf(bars, i, i + L - 1)]
                 /\ L = 1 => ret.result.val[L] = bars
                 /\ L = n => ret.result.val[L] = <<MeanOf(bars, 1, n)>>

\* A full window of two bars whose timestamps sum to a negative odd number
\* (so that i64 division rounds toward zero), asked for lengths 1 and 2.
C4_Witness ==
    /\ ret.op = "means"
    /\ universe_window = 2
    /\ len(ret.before) = 2
    /\ ret.windows = <<1, 2>>
    /\ ret.result.status = "ok"
    /\ Len(ret.result.val[2]) = 1
    /\ ret.result.val[2][1].time = 0
    /\ Window(ret.before)[1].time = 0 - 1
    /\ Window(ret.before)[1].count # Window(ret.before)[2].count

\* C5 as stated: for a window of n bars and requested lengths L with
\* 1 <= L <= n, means succeeds and the sequence for L has n - L + 1 elements.
C5_ResultLength ==
    ( /\ ret.op = "means"
      /\ LengthsWithin(ret.windows, 1, len(ret.before)) ) =>
        /\ ret.result.status = "ok"
        /\ \A L \in DOMAIN ret.result.val :
             Len(ret.result.val[L]) = len(ret.before) - L + 1

\* C6: a means call with some requested length above universe_window
\* returns an error and no result map, whatever the window holds and
\* whatever the other lengths are.
C6_TooLargeRejected ==
    ( /\ ret.op = "means"
      /\ \E i \in 1 .. Len(ret.windows) : ret.windows[i] > universe_window ) =>
        /\ ret.result.status = "err"
        /\ "val" \notin DOMAIN ret.result

\* A partly filled window, a valid length first and a too large one second.
C6_Witness ==
    /\ ret.op = "means"
    /\ universe_window = 2
    /\ len(ret.before) = 1
    /\ ret.windows = <<1, 3>>
    /\ ret.result.status = "err"

\* C8 as stated: with universe_window = 0 every update returns the bar it
\* was given as the evicted bar.
C8_AsStated ==
    (universe_window = 0 /\ ret.op = "update") => ret.result = Some(ret.unit)

\* C8 amended: with universe_window = 0 no update returns an evicted bar;
\* in particular the bar it was given is never reported as evicted.
C8_NothingEvicted ==
    (universe_window = 0 /\ ret.op = "update") =>
        ~ret.result.some /\ ret.result # Some(ret.unit)

\* A second update on an engine of capacity 0.
C8_Witness ==
    /\ universe_window = 0
    /\ ret.op = "update"
    /\ Len(supplied) = 2
    /\ ret.result = None

\* C9: with universe_window = 0 every update, after any number of earlier
\* ones, returns Ok(None), and the window stays empty.
C9_NullUniverse ==
    universe_window = 0 =>
        /\ universe = EmptyTree
        /\ ret.op = "update" => (ret.result = None /\ ret.before = EmptyTree)

\* The last update the bound allows, on an engine of capacity 0.
C9_Witness ==
    /\ universe_window = 0
    /\ ret.op = "update"
    /\ Len(supplied) = MaxUpdates
    /\ universe = EmptyTree

\* C10: with universe_window = 1 the first update returns no bar and every
\* later update returns the bar given to the update just before it.
C10_OneUniverse ==
    (universe_window = 1 /\ ret.op = "update") =>
        IF Len(supplied) = 1
        THEN ret.result = None
        ELSE ret.result = Some(supplied[Len(supplied) - 1])

\* A third update that carries the timestamp of the second with another
\* payload, the second having an older timestamp than the first.
C10_Witness ==
    /\ universe_window = 1
    /\ ret.op = "update"
    /\ Len(supplied) = 3
    /\ supplied[3].time = supplied[2].time
    /\ supplied[3] # supplied[2]
    /\ supplied[2].time < supplied[1].time
    /\ ret.result = Some(supplied[2])

\* Tasks between acquiring the write guard and releasing it.
Writing == {t \in Tasks : pc[t] \in {"evict", "insert"}}

\* Tasks between acquiring the read guard and releasing it.
Reading == {t \in Tasks : pc[t] = "compute"}

\* C7: at most one update is inside its check-evict-insert section, no means
\* or deviations call is reading the window while one is, and no completed
\* read saw the window between an eviction and the insert that follows it.
C7_ReaderWriterExclusion ==
    /\ Cardinality(Writing) <= 1
    /\ Writing # {} => Reading = {}
    /\ ret.op \in {"means", "deviations"} => ~ret.torn

\* An update has evicted the oldest bar of a full window and not yet
\* inserted its own, while the other task, a reader that passed validation,
\* waits for the read guard.
C7_Witness ==
    \E t \in Tasks : \E u \in Tasks :
        /\ pc[t] = "insert"
        /\ job[t].popped.some
        /\ len(universe) = universe_window - 1
        /\ pc[u] = "read"

----------------------------------------------------------------------------
C12_EmptyBeyondSize ==
    ( /\ ret.op = "means"
      /\ ret.windows # <<>>
      /\ LengthsWithin(ret.windows, len(ret.before) + 1, universe_window) ) =>
        /\ ret.result.status = "ok"
        /\ \A L \in DOMAIN ret.result.val : ret.result.val[L] = <<>>

\* C13: a means call whose list holds the length 0 is rejected by the
\* validation with an error result, before any arithmetic.
C13_ZeroRejected ==
    ( /\ ret.op = "means"
      /\ \E i \in 1 .. Len(ret.windows) : ret.windows[i] = 0 ) =>
        ret.result.status = "err"

\* The supplied sequence for length L has the length a window of n bars
\* gives, n - L + 1.
FitsSize(given, n) ==
    \A L \in DOMAIN given : Len(given[L]) = n - L + 1

\* C14: deviations, called with lengths within universe_window, returns the
\* length-mismatch error exactly when some supplied sequence does not have
\* n - L + 1 elements, n the current size of the window.
C14_LengthAgainstSize ==
    ( /\ ret.op = "deviations"
      /\ \A L \in DOMAIN ret.given : L <= universe_window ) =>
        ( (ret.result.status = "err" /\ ret.result.kind = "length")
            <=> ~FitsSize(ret.given, len(ret.before)) )

\* C15: deviations, called with a sequence of the right length for every
\* supplied window length, returns a success value with a sequence as long
\* as the supplied one for each window length.
C15_ProducesResult ==
    ( /\ ret.op = "deviations"
      /\ ret.given # <<>>
      /\ \A L \in DOMAIN ret.given : L <= universe_window
      /\ FitsSize(ret.given, len(ret.before)) ) =>
        /\ ret.result.status = "ok"
        /\ \A L \in DOMAIN ret.given : Len(ret.result.val[L]) = Len(ret.given[L])

\* C16: a means or deviations call, whatever it returns, leaves the window
\* (and the record of the bars supplied) as it was, and a means call that
\* directly follows a means call with the same arguments returns the same
\* result.
C16_ReadsArePure ==
    [][ /\ ret'.op \in {"means", "deviations"} =>
              (universe' = universe /\ supplied' = supplied)
        /\ (ret.op = "means" /\ ret'.op = "means" /\ ret'.windows = ret.windows) =>
              ret'.result = ret.result ]_vars

\* A deviations call that was rejected for a length mismatch on a window
\* that holds bars.
C16_Witness ==
    /\ ret.op = "deviations"
    /\ ret.result.status = "err"
    /\ ret.result.kind = "length"
    /\ universe # EmptyTree
    /\ universe = ret.before

C18_AlwaysAnError ==
    ret.op = "deviations" => ret.result.status = "err"

\* C19: when every supplied window length passes both checks of the
\* validation, the accumulation loop stays within the bounds of its vectors
\* and completes.
C19_IndexSafety ==
    ( /\ ret.op = "deviations"
      /\ \A L \in DOMAIN ret.given :
           /\ L <= universe_window
           /\ Len(ret.given[L]) = universe_window - L + 1 ) =>
        ret.result.status # "panic"

====
